---- MODULE Spec2Model ----
(***************************************************************************)
(* Materials Digital Laboratory (src/app.py): the tensile / fatigue /      *)
(* failure analysis that the Streamlit script performs on an uploaded      *)
(* strain-stress CSV.                                                      *)
(*                                                                         *)
(* Units.  Strain is held in thousandths (0.002 is 2, 0.25 is 250) and     *)
(* stress in half-MPa (199.5 MPa is 399), so that the floats of the        *)
(* script become integers.  Quotients (the fitted modulus, the offset      *)
(* line, the fatigue life) are exact rationals [num, den] with den > 0;    *)
(* floating-point rounding is not modelled.  Sequence positions are the    *)
(* 0-based positions of pandas / numpy.                                    *)
(*                                                                         *)
(* A run of the script is a sequence of steps in the order of the file;    *)
(* an uncaught exception ends the run at the step that raised it.  A       *)
(* widget event (a file put in or taken out, the slider dragged) starts a  *)
(* new run with no name bound.  The chart of tab 1 and the PDF of tab 4    *)
(* only render names that are already bound and are left out.              *)
(***************************************************************************)
EXTENDS Integers, Sequences, FiniteSets, TLC

VARIABLES
    uploaded_file,   \* the file_uploader widget: <<>> (None) or <<rows>>
    slider_state,    \* the slider widget's stored state: <<>> or <<[max, value]>>
    pc,              \* the script line the current run has reached
    raised,          \* the exception that ended the run at pc, "" if none
    env              \* the names the current script run has bound so far

vars == <<uploaded_file, slider_state, pc, raised, env>>

-----------------------------------------------------------------------------
(* Bounds and input sets *)

\* the longest CSV considered, in rows
MaxRows == 5

\* the working stresses (MPa) tried by the stand-alone estimator runs
MaxWorking == 1100

\* CSV rows <<strain (1/1000), stress (MPa/2)>> a file is made of
Points ==
    { <<0, 0>>, <<2, 399>>, <<2, 800>>, <<300, 800>>, <<300, 2002>> }

\* positions the user may drag the slider to (MPa)
SliderVals == {50, 200, 1000, 1001}

-----------------------------------------------------------------------------
(* Values *)

None == <<>>
Some(x) == <<x>>

Rat(n, d) == IF d < 0 THEN [num |-> -n, den |-> -d] ELSE [num |-> n, den |-> d]

Abs(x) == IF x < 0 THEN -x ELSE x

RECURSIVE Sum(_)
Sum(s) == IF s = <<>> THEN 0 ELSE Head(s) + Sum(Tail(s))

Has(n) == n \in DOMAIN env

Bind(r) == r @@ env

Empty == [x \in {} |-> 0]

-----------------------------------------------------------------------------
(* Program constants *)

\* strain[:5], stress[:5]: the window of the linear fit
FIT_WINDOW == 5

\* the 0.002 of line 104, in thousandths of strain
OFFSET == 2

\* st.slider("Working Stress (MPa)", 50, int(uts_stress), 200)
SLIDER_MIN == 50
SLIDER_DEFAULT == 200

\* the 1000 of (1000 / working_stress)**3, in MPa
REF_STRESS == 1000

\* the 1e6 of line 168 and of line 170, in units of 1e6 cycles
MCYCLES == 1

\* fracture_strain > 0.25, in thousandths of strain
DUCTILE_STRAIN == 250

-----------------------------------------------------------------------------
(* The numeric procedures *)

\* s[:k] of a pandas Series
Take(s, k) == SubSeq(s, 1, IF Len(s) < k THEN Len(s) ELSE k)

\* s.iloc[i] for i >= 0, s.iloc[-1] for i = -1
iloc(s, i) == IF i < 0 THEN s[Len(s) + 1 + i] ELSE s[i + 1]

Column(rows, c) == [i \in 1..Len(rows) |-> rows[i][c]]

Products(x, y) == [i \in 1..Len(x) |-> x[i] * y[i]]

\* n*Sxx - Sx^2 and n*Sxy - Sx*Sy of the least-squares line through (x, y)
FitDen(x) == Len(x) * Sum(Products(x, x)) - Sum(x) * Sum(x)
FitNum(x, y) == Len(x) * Sum(Products(x, y)) - Sum(x) * Sum(y)

\* np.polyfit(x, y, 1) ends in an exception: no point at all (TypeError), or
\* every x is 0, where the column scaling divides 0 by 0 and lstsq is given
\* a NaN matrix (LinAlgError: SVD did not converge).  A LAPACK that returns
\* NaN instead makes idxmin or iloc of lines 105-107 raise; either way the
\* run ends before a yield point exists, and the model ends it here.
polyfit_raises(x, y) ==
    IF Len(x) = 0 THEN "TypeError"
    ELSE IF FitDen(x) = 0 /\ x[1] = 0 THEN "LinAlgError"
    ELSE ""

\* np.polyfit(x, y, 1)[0]: the least-squares slope; when all x are one value
\* c # 0 the system has rank 1 and lstsq returns the minimum-norm solution
\* of the column-scaled system, whose slope is mean(y) / (2c)
polyfit_slope(x, y) ==
    IF FitDen(x) # 0 THEN Rat(FitNum(x, y), FitDen(x))
    ELSE Rat(Sum(y), 2 * x[1] * Len(x))

\* E * (strain + 0.002), one value per row
offset_line(E, strain) ==
    [i \in 1..Len(strain) |-> Rat(E.num * (strain[i] + OFFSET), E.den)]

\* np.abs(stress - offset_line), one value per row
abs_diff(stress, line) ==
    [i \in 1..Len(stress) |->
        Rat(Abs(stress[i] * line[i].den - line[i].num), line[i].den)]

RatLess(a, b) ==
    IF a.den = b.den THEN a.num < b.num ELSE a.num * b.den < b.num * a.den

\* a search that keeps the last of several equal minima
idxmin_last(s) ==
    CHOOSE i \in 0..(Len(s) - 1) :
        /\ \A j \in 0..(Len(s) - 1) : ~RatLess(iloc(s, j), iloc(s, i))
        /\ \A j \in (i + 1)..(Len(s) - 1) : RatLess(iloc(s, i), iloc(s, j))

\* Series.idxmin(): the label of the first minimum; read_csv gives the
\* rows the labels 0 .. n-1
idxmin(s) ==
    CHOOSE i \in 0..(Len(s) - 1) :
        /\ \A j \in 0..(Len(s) - 1) : ~RatLess(iloc(s, j), iloc(s, i))
        /\ \A j \in 0..(i - 1) : RatLess(iloc(s, i), iloc(s, j))

\* a search that keeps the last of several equal maxima
argmax_last(s) ==
    CHOOSE i \in 0..(Len(s) - 1) :
        /\ \A j \in 0..(Len(s) - 1) : iloc(s, j) <= iloc(s, i)
        /\ \A j \in (i + 1)..(Len(s) - 1) : iloc(s, j) < iloc(s, i)

\* np.argmax(stress): the position of the first maximum
argmax(s) ==
    CHOOSE i \in 0..(Len(s) - 1) :
        /\ \A j \in 0..(Len(s) - 1) : iloc(s, j) <= iloc(s, i)
        /\ \A j \in 0..(i - 1) : iloc(s, j) < iloc(s, i)

\* int(uts_stress): a stress in half-MPa truncated toward zero to whole MPa
PyInt(x) == IF x >= 0 THEN x \div 2 ELSE -((-x) \div 2)

\* (1000 / working_stress)**3 * 1e6, in units of 1e6 cycles
fatigue_life(w) ==
    Rat(REF_STRESS * REF_STRESS * REF_STRESS * MCYCLES, w * w * w)

\* a comparison that leaves the boundary out: fatigue_life > 1e6
badge_strict(life) ==
    IF life.num > MCYCLES * life.den THEN "SAFE DESIGN" ELSE "FAILURE LIKELY"

\* lines 170-173: fatigue_life >= 1e6 selects the badge
badge(life) ==
    IF life.num >= MCYCLES * life.den THEN "SAFE DESIGN" ELSE "FAILURE LIKELY"

\* a division that yields inf at 0, as numpy's does, instead of raising
life_inf(w) ==
    IF w = 0
    THEN [raised |-> "", binds |-> [fatigue_life |-> Rat(1, 0),
                                    badge |-> "SAFE DESIGN"]]
    ELSE [raised |-> "", binds |-> [fatigue_life |-> fatigue_life(w),
                                    badge |-> badge(fatigue_life(w))]]

\* lines 168-173: the names they bind, or the exception of 1000 / 0;
\* working_stress is a Python int, so 1000 / 0 raises ZeroDivisionError
life(w) ==
    IF w = 0
    THEN [raised |-> "ZeroDivisionError", binds |-> Empty]
    ELSE [raised |-> "", binds |-> [fatigue_life |-> fatigue_life(w),
                                    badge |-> badge(fatigue_life(w))]]

\* a rule list that tests the stress drop before the fracture strain
failure_by_drop(uts, frac, fstrain) ==
    IF 2 * (uts - frac) > uts
    THEN [failure |-> "Brittle Cleavage", heat |-> "Annealing"]
    ELSE IF fstrain > DUCTILE_STRAIN
    THEN [failure |-> "Ductile Fracture (Cup & Cone)",
          heat |-> "Normalizing / Annealing"]
    ELSE [failure |-> "Low-Cycle Fatigue", heat |-> "Quench & Temper"]

\* lines 181-191: stress in half-MPa, strain in thousandths
failure(uts, frac, fstrain) ==
    IF fstrain > DUCTILE_STRAIN
    THEN [failure |-> "Ductile Fracture (Cup & Cone)",
          heat |-> "Normalizing / Annealing"]
    ELSE IF 2 * (uts - frac) > uts
    THEN [failure |-> "Brittle Cleavage", heat |-> "Annealing"]
    ELSE [failure |-> "Low-Cycle Fatigue", heat |-> "Quench & Temper"]

\* a slider that does not check its default against its range
slider_unchecked(max, state) ==
    [raised |-> "",
     value |-> IF state # None /\ state[1].max = max
               THEN state[1].value ELSE SLIDER_DEFAULT]

\* st.slider(label, 50, max, 200): Streamlit raises unless 50 <= 200 <= max;
\* a widget keeps its stored value only while its parameters are the same
slider(max, state) ==
    IF ~(SLIDER_MIN <= SLIDER_DEFAULT /\ SLIDER_DEFAULT <= max)
    THEN [raised |-> "StreamlitAPIException", value |-> 0]
    ELSE [raised |-> "",
          value |-> IF state # None /\ state[1].max = max
                    THEN state[1].value ELSE SLIDER_DEFAULT]

-----------------------------------------------------------------------------
(* The script: one run executes the steps in the order of the file *)

\* an order that extracts the strength before it locates the yield point
StepAfter_strength_first(p) ==
    CASE p = "upload" -> "read_csv"
      [] p = "read_csv" -> "polyfit"
      [] p = "polyfit" -> "strength"
      [] p = "strength" -> "offset_yield"
      [] p = "offset_yield" -> "tab2"
      [] p = "tab2" -> "tab3"
      [] p = "tab3" -> "done"

\* the order of the statements of the file
StepAfter(p) ==
    CASE p = "upload" -> "read_csv"
      [] p = "read_csv" -> "polyfit"
      [] p = "polyfit" -> "offset_yield"
      [] p = "offset_yield" -> "strength"
      [] p = "strength" -> "tab2"
      [] p = "tab2" -> "tab3"
      [] p = "tab3" -> "done"

Running(p) == pc = p /\ raised = ""

RunEnded == pc \in {"stopped", "done"} \/ raised # ""

\* a widget event: Streamlit runs the script again from its first line
Rerun ==
    /\ pc' = "upload"
    /\ raised' = ""
    /\ env' = Empty

\* an exception ends the run where it is raised; a run that never reached
\* the slider leaves no slider state behind
Raise(exc) ==
    /\ raised' = exc
    /\ pc' = pc
    /\ env' = env

\* lines 93-94: without a file the script stops
CheckUpload ==
    /\ Running("upload")
    /\ IF uploaded_file = None
       THEN pc' = "stopped" /\ slider_state' = None
       ELSE pc' = StepAfter(pc) /\ slider_state' = slider_state
    /\ UNCHANGED <<uploaded_file, raised, env>>

\* lines 96-98
ReadCsv ==
    /\ Running("read_csv")
    /\ env' = Bind([strain |-> Column(uploaded_file[1], 1),
                    stress |-> Column(uploaded_file[1], 2)])
    /\ pc' = StepAfter(pc)
    /\ UNCHANGED <<uploaded_file, slider_state, raised>>

\* line 103
FitModulus ==
    /\ Running("polyfit")
    /\ LET x == Take(env.strain, FIT_WINDOW)
           y == Take(env.stress, FIT_WINDOW)
       IN IF polyfit_raises(x, y) # ""
          THEN Raise(polyfit_raises(x, y)) /\ slider_state' = None
          ELSE /\ env' = Bind([E |-> polyfit_slope(x, y)])
               /\ pc' = StepAfter(pc)
               /\ UNCHANGED <<raised, slider_state>>
    /\ UNCHANGED uploaded_file

\* lines 104-107
LocateYield ==
    /\ Running("offset_yield")
    /\ LET line == offset_line(env.E, env.strain)
           yi == idxmin(abs_diff(env.stress, line))
       IN env' = Bind([offset_line |-> line,
                       yield_index |-> yi,
                       yield_stress |-> iloc(env.stress, yi)])
    /\ pc' = StepAfter(pc)
    /\ UNCHANGED <<uploaded_file, slider_state, raised>>

\* lines 108-111
ExtractStrength ==
    /\ Running("strength")
    /\ LET ui == argmax(env.stress)
       IN env' = Bind([uts_index |-> ui,
                       uts_stress |-> iloc(env.stress, ui),
                       fracture_stress |-> iloc(env.stress, -1),
                       fracture_strain |-> iloc(env.strain, -1)])
    /\ pc' = StepAfter(pc)
    /\ UNCHANGED <<uploaded_file, slider_state, raised>>

\* lines 152-173 (the S-N chart of 152-165 only draws)
FatigueTab ==
    /\ Running("tab2")
    /\ LET max == PyInt(env.uts_stress)
           sl == slider(max, slider_state)
           lf == life(sl.value)
       IN IF sl.raised # ""
          THEN Raise(sl.raised) /\ slider_state' = None
          ELSE /\ slider_state' = Some([max |-> max, value |-> sl.value])
               /\ IF lf.raised # ""
                  THEN /\ raised' = lf.raised
                       /\ pc' = pc
                       /\ env' = Bind([working_stress |-> sl.value])
                  ELSE /\ env' = Bind([working_stress |-> sl.value] @@ lf.binds)
                       /\ pc' = StepAfter(pc)
                       /\ raised' = raised
    /\ UNCHANGED uploaded_file

\* lines 181-191
FailureTab ==
    /\ Running("tab3")
    /\ env' = Bind([stress_drop |-> env.uts_stress - env.fracture_stress]
                   @@ failure(env.uts_stress, env.fracture_stress,
                              env.fracture_strain))
    /\ pc' = StepAfter(pc)
    /\ UNCHANGED <<uploaded_file, slider_state, raised>>

-----------------------------------------------------------------------------
(* The user *)

Files == UNION { [1..(MaxRows - k) -> Points] : k \in 0..MaxRows }

\* line 91: a CSV is put into the empty uploader
UploadFile ==
    /\ RunEnded
    /\ uploaded_file = None
    /\ \E rows \in Files : uploaded_file' = Some(rows)
    /\ Rerun
    /\ UNCHANGED slider_state

\* line 91: the file is taken out of the uploader.  Putting another file in
\* its place at once reaches the states that removing, uploading and moving
\* the slider reach.
RemoveFile ==
    /\ RunEnded
    /\ uploaded_file # None
    /\ uploaded_file' = None
    /\ Rerun
    /\ UNCHANGED slider_state

\* line 167: the slider shown by the last run is dragged
MoveSlider ==
    /\ RunEnded
    /\ Has("working_stress")
    /\ \E w \in SliderVals :
        /\ SLIDER_MIN <= w
        /\ w <= PyInt(env.uts_stress)
        /\ w # env.working_stress
        /\ slider_state' = Some([max |-> PyInt(env.uts_stress), value |-> w])
    /\ Rerun
    /\ UNCHANGED uploaded_file

Init ==
    /\ uploaded_file = None
    /\ slider_state = None
    /\ pc = "upload"
    /\ raised = ""
    /\ env = Empty

Next ==
    \/ CheckUpload
    \/ ReadCsv
    \/ FitModulus
    \/ LocateYield
    \/ ExtractStrength
    \/ FatigueTab
    \/ FailureTab
    \/ UploadFile
    \/ RemoveFile
    \/ MoveSlider

Spec == Init /\ [][Next]_vars

-----------------------------------------------------------------------------
(* The estimator and the classifier on their own: lines 168-173 and        *)
(* 181-191 applied to inputs the slider and the curve need not produce     *)

\* stresses in half-MPa and strains in thousandths given to the classifier
FnStress == {-800, 0, 1, 399, 400, 401, 800, 2002}
FnStrain == {0, 2, 249, 250, 251, 300}

InitFn ==
    /\ uploaded_file = None
    /\ slider_state = None
    /\ raised = ""
    /\ \/ /\ pc = "fn_life"
          /\ \E w \in (-MaxWorking)..MaxWorking : env = [working_stress |-> w]
       \/ /\ pc = "fn_failure"
          /\ \E u \in FnStress, f \in FnStress, e \in FnStrain :
                env = [uts_stress |-> u, fracture_stress |-> f,
                       fracture_strain |-> e]

\* lines 168-173
EvalFatigueLife ==
    /\ Running("fn_life")
    /\ LET lf == life(env.working_stress)
       IN /\ raised' = lf.raised
          /\ env' = Bind(lf.binds)
          /\ pc' = IF lf.raised # "" THEN pc ELSE "done"
    /\ UNCHANGED <<uploaded_file, slider_state>>

\* lines 181-191
EvalFailure ==
    /\ Running("fn_failure")
    /\ env' = Bind([stress_drop |-> env.uts_stress - env.fracture_stress]
                   @@ failure(env.uts_stress, env.fracture_stress,
                              env.fracture_strain))
    /\ pc' = "done"
    /\ UNCHANGED <<uploaded_file, slider_state, raised>>

NextFn ==
    \/ EvalFatigueLife
    \/ EvalFailure

SpecFn == InitFn /\ [][NextFn]_vars

-----------------------------------------------------------------------------
(* Properties *)

SampleNames == {"strain", "stress"}
ModulusNames == {"E"}
YieldNames == {"offset_line", "yield_index", "yield_stress"}
StrengthNames ==
    {"uts_index", "uts_stress", "fracture_stress", "fracture_strain"}
FatigueNames == {"working_stress", "fatigue_life", "badge"}
FailureNames == {"stress_drop", "failure", "heat"}
DerivedNames ==
    ModulusNames \cup YieldNames \cup StrengthNames
        \cup FatigueNames \cup FailureNames

Bound(S) == S \subseteq DOMAIN env
AnyOf(S) == S \cap DOMAIN env # {}

Rows == Len(env.strain)

NonDecreasing(s) == \A i \in 1..(Len(s) - 1) : s[i] <= s[i + 1]

ValidSample == Rows >= FIT_WINDOW /\ NonDecreasing(env.strain)

\* |stress - offset_line| at 0-based row i, over the denominator of E
Gap(i) ==
    Abs(iloc(env.stress, i) * env.E.den - iloc(env.offset_line, i).num)

\* C1: at every sampled strain s the offset line has the value
\* E * (s - 0.002), the line of slope E through (0.002, 0).
C1_OffsetLineThroughOffset ==
    Has("offset_line") /\ ValidSample =>
        \A i \in 1..Rows :
            env.offset_line[i]
                = Rat(env.E.num * (env.strain[i] - OFFSET), env.E.den)

\* C2: the yield index is a row of the sample, no row is nearer to the
\* offset line than it, every earlier row is strictly farther, and the
\* yield stress is the measured stress of that row.
C2_YieldIsFirstNearestRow ==
    Has("yield_index") =>
        /\ \A i \in 1..Rows : env.offset_line[i].den = env.E.den
        /\ env.yield_index \in 0..(Rows - 1)
        /\ \A j \in 0..(Rows - 1) : Gap(env.yield_index) <= Gap(j)
        /\ \A j \in 0..(env.yield_index - 1) : Gap(env.yield_index) < Gap(j)
        /\ env.yield_stress = iloc(env.stress, env.yield_index)

\* a later row is exactly as near to the offset line as the yield row,
\* which is not the first row
C2_Witness ==
    /\ Has("yield_index")
    /\ env.yield_index > 0
    /\ \E j \in (env.yield_index + 1)..(Rows - 1) :
            Gap(j) = Gap(env.yield_index)

\* C3: the UTS is the largest stress of the sample at the first row that
\* has it, the fracture point is the last row, and the extraction raises
\* nothing.
C3_StrengthExtraction ==
    /\ ~(pc = "strength" /\ raised # "")
    /\ pc \in {"tab2", "tab3", "done"} => Bound(StrengthNames)
    /\ Has("uts_index") =>
        /\ env.uts_index \in 0..(Rows - 1)
        /\ env.uts_stress = iloc(env.stress, env.uts_index)
        /\ \A j \in 1..Rows : env.stress[j] <= env.uts_stress
        /\ \A j \in 1..env.uts_index : env.stress[j] < env.uts_stress
        /\ env.fracture_stress = env.stress[Rows]
        /\ env.fracture_strain = env.strain[Rows]

\* a valid sample whose largest stress occurs twice, first after row 0
C3_Witness ==
    /\ Has("uts_index")
    /\ ValidSample
    /\ env.uts_index > 0
    /\ \E j \in (env.uts_index + 2)..Rows : env.stress[j] = env.uts_stress

TreatmentOf(mode) ==
    CASE mode = "Ductile Fracture (Cup & Cone)" -> "Normalizing / Annealing"
      [] mode = "Brittle Cleavage" -> "Annealing"
      [] mode = "Low-Cycle Fatigue" -> "Quench & Temper"

\* C4: the classifier returns the ductile mode whenever the fracture
\* strain exceeds 0.25, else the brittle mode when the drop from UTS to
\* fracture exceeds half the UTS, else low-cycle fatigue; the treatment
\* depends on the mode alone.
C4_FirstMatchWins ==
    Has("failure") =>
        LET u == env.uts_stress
            f == env.fracture_stress
            e == env.fracture_strain
        IN /\ env.failure \in {"Ductile Fracture (Cup & Cone)",
                               "Brittle Cleavage", "Low-Cycle Fatigue"}
           /\ e > DUCTILE_STRAIN
                => env.failure = "Ductile Fracture (Cup & Cone)"
           /\ e <= DUCTILE_STRAIN /\ 2 * (u - f) > u
                => env.failure = "Brittle Cleavage"
           /\ e <= DUCTILE_STRAIN /\ 2 * (u - f) <= u
                => env.failure = "Low-Cycle Fatigue"
           /\ env.heat = TreatmentOf(env.failure)

\* both rules match and the first one decides
C4_Witness ==
    /\ Has("failure")
    /\ env.uts_stress > 0
    /\ env.fracture_strain > DUCTILE_STRAIN
    /\ 2 * (env.uts_stress - env.fracture_stress) > env.uts_stress
    /\ env.failure = "Ductile Fracture (Cup & Cone)"

\* C5: for a working stress w # 0 the design is classified safe exactly
\* when the life is at least 1e6 cycles, which is exactly when
\* 0 < w <= 1000; at w = 1000 the life is exactly 1e6 cycles.
C5_InfiniteLifeBoundary ==
    /\ Running("done") /\ Has("working_stress")
        => env.working_stress = 0 \/ Has("badge")
    /\ Has("badge") =>
        LET w == env.working_stress
            lf == env.fatigue_life
        IN /\ w # 0
           /\ env.badge \in {"SAFE DESIGN", "FAILURE LIKELY"}
           /\ env.badge = "SAFE DESIGN" <=> lf.num >= MCYCLES * lf.den
           /\ env.badge = "SAFE DESIGN" <=> (0 < w /\ w <= REF_STRESS)
           /\ w = REF_STRESS => lf.num = MCYCLES * lf.den

\* the boundary: a working stress of 1000 MPa, classified safe
C5_Witness ==
    /\ Has("badge")
    /\ env.working_stress = REF_STRESS
    /\ env.badge = "SAFE DESIGN"

\* the fatigue criteria of the design evaluator, for a working stress w
\* (MPa), UTS and yield stress (half-MPa) and a factor of safety fos:
\* w < allowable / fos with the endurance limit 0.5 * uts and
\*   Goodman    allowable = endurance * (1 - w / uts)
\*   Soderberg  allowable = endurance * (1 - w / yield)
\*   Gerber     allowable = endurance * (1 - (w / uts)^2)
\* cleared of their (positive) denominators
Criteria == {"Goodman", "Soderberg", "Gerber"}
FosVals == {1, 2}

IsSafe(criterion, fos, w, uts, yield) ==
    LET ww == 2 * w
    IN CASE criterion = "Goodman" -> 2 * fos * ww < uts - ww
         [] criterion = "Soderberg" -> 2 * fos * ww * yield < uts * (yield - ww)
         [] criterion = "Gerber" -> 2 * fos * ww * uts < uts * uts - ww * ww

\* C6: for each criterion and factor of safety >= 1 the verdict of the
\* fatigue evaluation is safe exactly when the working stress is strictly
\* below allowable / factorOfSafety.
C6_CriterionDecidesVerdict ==
    Has("badge") /\ ValidSample /\ env.yield_stress > 0 =>
        \A c \in Criteria, fos \in FosVals :
            env.badge = "SAFE DESIGN"
                <=> IsSafe(c, fos, env.working_stress,
                           env.uts_stress, env.yield_stress)

\* C7: data with fewer than 5 rows or with a strain that decreases is
\* rejected with MalformedInputError, respectively InvalidCurveError, and
\* no derived metric is computed from it.
C7_BadCurveRejected ==
    Has("strain") /\ ~ValidSample =>
        /\ ~AnyOf(DerivedNames)
        /\ pc # "polyfit" =>
            raised = IF Rows < FIT_WINDOW THEN "MalformedInputError"
                     ELSE "InvalidCurveError"

\* C8: a working stress of 0 ends the estimator in a division-by-zero
\* error with no life and no classification, and every life that is
\* computed is a finite number.
C8_ZeroWorkingStressRaises ==
    /\ Has("working_stress") /\ env.working_stress = 0 =>
        /\ ~Has("fatigue_life")
        /\ ~Has("badge")
        /\ pc # "done"
        /\ pc = "fn_life" => raised \in {"", "ZeroDivisionError"}
    /\ pc = "fn_life" /\ raised # "" =>
        env.working_stress = 0 /\ raised = "ZeroDivisionError"
    /\ Has("fatigue_life") => env.fatigue_life.den # 0

\* the estimator has run on a working stress of 0
C8_Witness ==
    /\ Has("working_stress")
    /\ env.working_stress = 0
    /\ raised = "ZeroDivisionError"

\* what C9 says apart from the place of the strength extraction: nothing
\* is derived without an uploaded sample, the yield location follows the
\* modulus and uses it, the fatigue and failure steps follow the
\* extraction of the scalars and are functions of those scalars
C9_Common ==
    /\ AnyOf(DerivedNames) => uploaded_file # None /\ Bound(SampleNames)
    /\ AnyOf(YieldNames) => Bound(ModulusNames)
    /\ Has("offset_line") =>
        env.offset_line = offset_line(env.E, env.strain)
    /\ AnyOf(FatigueNames \cup FailureNames) =>
        Bound(ModulusNames \cup YieldNames \cup StrengthNames)
    /\ Has("fatigue_life") =>
        env.fatigue_life = fatigue_life(env.working_stress)
    /\ Has("failure") =>
        [failure |-> env.failure, heat |-> env.heat]
            = failure(env.uts_stress, env.fracture_stress,
                      env.fracture_strain)

\* C9 as stated: sample, then modulus and strength extraction, then the
\* offset-yield location, then the fatigue and failure evaluations.
C9_StrengthBeforeYield ==
    /\ C9_Common
    /\ AnyOf(StrengthNames) => Bound(ModulusNames)
    /\ AnyOf(YieldNames) => Bound(StrengthNames)

\* C9 amended: sample, then modulus, then the offset-yield location, then
\* the strength extraction, then the fatigue and failure evaluations.
C9_YieldBeforeStrength ==
    /\ C9_Common
    /\ AnyOf(StrengthNames) => Bound(ModulusNames \cup YieldNames)

\* the yield point is located and the strength is not yet extracted
C9_Witness ==
    /\ pc = "strength"
    /\ Bound(SampleNames \cup ModulusNames \cup YieldNames)
    /\ ~AnyOf(StrengthNames)

====
